---- MODULE Spec2Model ----
(***************************************************************************)
(* A model of listenbrainz/art/cover_art_generator.py: the CoverArtGenerator *)
(* grid geometry, the layout catalog, the placement loop of                 *)
(* generate_from_caa_ids and the user-statistics adapter.                   *)
(*                                                                         *)
(* Python values are modelled as follows.  A str that the code parses (a   *)
(* tile address) is a sequence of one-character strings; an opaque str (an *)
(* MBID, a title, a user name) is a TLA+ string and None in such a place is *)
(* the string "None".  A URL is the sequence of the pieces of its f-string; *)
(* a None url is the empty sequence.  A tuple of coordinates is a 4-tuple   *)
(* of integers and the tuple of Nones that stands for "no box" is the empty *)
(* tuple.  An optional argument is <<>> (None) or <<v>>.                     *)
(***************************************************************************)
EXTENDS Integers, Sequences, FiniteSets, TLC

VARIABLES
    self,        \* the CoverArtGenerator instance (its attributes)
    covers,      \* the caller's list of cover dicts, passed by reference
    ret,         \* what the last call did: its arguments, its result, its trace
    users,       \* the user table read by db_user.get_by_mb_id
    stats,       \* the statistics read by db_stats.get
    db_calls     \* the store calls the last operation made, in order

vars == <<self, covers, ret, users, stats, db_calls>>

\* ---------------------------------------------------------------- constants

MIN_IMAGE_SIZE == 128
MAX_IMAGE_SIZE == 1024
MIN_DIMENSION == 2
MAX_DIMENSION == 5
NUMBER_OF_STATS == 100

None == "None"
CAA_MISSING_IMAGE == <<"https://listenbrainz.org/static/img/cover-art-placeholder.jpg">>
UrlNone == <<>>
NoBox == <<>>

Min(a, b) == IF a <= b THEN a ELSE b
Max(a, b) == IF a >= b THEN a ELSE b

\* ------------------------------------------------------------ layout catalog

\* The designs of each dimension, each a list of addresses; an address is the
\* str of the source, character by character.
DESIGNS_2 ==
    <<
      \* "0", "1", "2", "3"
      <<<<"0">>, <<"1">>, <<"2">>, <<"3">>>>
    >>

\* DESIGNS_3 with the second design naming tile 1 where it names tile 2.
DESIGNS_3_tile_listed_twice ==
    <<
      \* "0", "1", "2", "3", "4", "5", "6", "7", "8"
      <<<<"0">>, <<"1">>, <<"2">>, <<"3">>, <<"4">>, <<"5">>, <<"6">>, <<"7">>, <<"8">>>>,
      \* "0,1,3,4", "1", "5", "6", "7", "8"
      <<<<"0",",","1",",","3",",","4">>, <<"1">>, <<"5">>, <<"6">>, <<"7">>, <<"8">>>>,
      \* "0", "1", "2", "3", "4,5,7,8", "6"
      <<<<"0">>, <<"1">>, <<"2">>, <<"3">>, <<"4",",","5",",","7",",","8">>, <<"6">>>>
    >>

DESIGNS_3 ==
    <<
      \* "0", "1", "2", "3", "4", "5", "6", "7", "8"
      <<<<"0">>, <<"1">>, <<"2">>, <<"3">>, <<"4">>, <<"5">>, <<"6">>, <<"7">>, <<"8">>>>,
      \* "0,1,3,4", "2", "5", "6", "7", "8"
      <<<<"0",",","1",",","3",",","4">>, <<"2">>, <<"5">>, <<"6">>, <<"7">>, <<"8">>>>,
      \* "0", "1", "2", "3", "4,5,7,8", "6"
      <<<<"0">>, <<"1">>, <<"2">>, <<"3">>, <<"4",",","5",",","7",",","8">>, <<"6">>>>
    >>

DESIGNS_4 ==
    <<
      \* "0", "1", "2", "3", "4", "5", "6", "7", "8", "9", "10", "11", "12", "13", "14", "15"
      <<<<"0">>, <<"1">>, <<"2">>, <<"3">>, <<"4">>, <<"5">>, <<"6">>, <<"7">>, <<"8">>, <<"9">>,
        <<"1","0">>, <<"1","1">>, <<"1","2">>, <<"1","3">>, <<"1","4">>, <<"1","5">>>>,
      \* "5,6,9,10", "0", "1", "2", "3", "4", "7", "8", "11", "12", "13", "14", "15"
      <<<<"5",",","6",",","9",",","1","0">>, <<"0">>, <<"1">>, <<"2">>, <<"3">>, <<"4">>, <<"7">>,
        <<"8">>, <<"1","1">>, <<"1","2">>, <<"1","3">>, <<"1","4">>, <<"1","5">>>>,
      \* "0,1,4,5", "10,11,14,15", "2", "3", "6", "7", "8", "9", "12", "13"
      <<<<"0",",","1",",","4",",","5">>, <<"1","0",",","1","1",",","1","4",",","1","5">>, <<"2">>,
        <<"3">>, <<"6">>, <<"7">>, <<"8">>, <<"9">>, <<"1","2">>, <<"1","3">>>>,
      \* "0,1,2,4,5,6,8,9,10", "3", "7", "11", "12", "13", "14", "15"
      <<<<"0",",","1",",","2",",","4",",","5",",","6",",","8",",","9",",","1","0">>, <<"3">>,
        <<"7">>, <<"1","1">>, <<"1","2">>, <<"1","3">>, <<"1","4">>, <<"1","5">>>>
    >>

DESIGNS_5 ==
    <<
      \* "0", "1", "2", "3", "4", "5", "6", "7", "8", "9", "10", "11", "12", "13", "14", "15", "16", "17", "18", "19", "20", "21", "22", "23", "24"
      <<<<"0">>, <<"1">>, <<"2">>, <<"3">>, <<"4">>, <<"5">>, <<"6">>, <<"7">>, <<"8">>, <<"9">>,
        <<"1","0">>, <<"1","1">>, <<"1","2">>, <<"1","3">>, <<"1","4">>, <<"1","5">>, <<"1","6">>,
        <<"1","7">>, <<"1","8">>, <<"1","9">>, <<"2","0">>, <<"2","1">>, <<"2","2">>, <<"2","3">>,
        <<"2","4">>>>,
      \* "0,1,2,5,6,7,10,11,12", "3,4,8,9", "15,16,20,21", "13", "14", "17", "18", "19", "22", "23", "24"
      <<<<"0",",","1",",","2",",","5",",","6",",","7",",","1","0",",","1","1",",","1","2">>,
        <<"3",",","4",",","8",",","9">>, <<"1","5",",","1","6",",","2","0",",","2","1">>,
        <<"1","3">>, <<"1","4">>, <<"1","7">>, <<"1","8">>, <<"1","9">>, <<"2","2">>, <<"2","3">>,
        <<"2","4">>>>
    >>

GRID_TILE_DESIGNS ==
    2 :> DESIGNS_2 @@ 3 :> DESIGNS_3 @@ 4 :> DESIGNS_4 @@ 5 :> DESIGNS_5

\* ------------------------------------------------------- str.split, int()

Digits == <<"0", "1", "2", "3", "4", "5", "6", "7", "8", "9">>

DigitValues == [c \in {Digits[i] : i \in 1..Len(Digits)} |->
                   (CHOOSE i \in 1..Len(Digits) : Digits[i] = c) - 1]

IsDigit(c) == c \in DOMAIN DigitValues

DigitValue(c) == DigitValues[c]

\* str.split(sep): the pieces between the separators; "" splits to [""].
RECURSIVE split_from(_, _, _)
split_from(s, sep, piece) ==
    IF s = <<>> THEN <<piece>>
    ELSE IF Head(s) = sep THEN <<piece>> \o split_from(Tail(s), sep, <<>>)
    ELSE split_from(Tail(s), sep, Append(piece, Head(s)))

split(s, sep) == split_from(s, sep, <<>>)

RECURSIVE lstrip(_)
lstrip(s) == IF s # <<>> /\ Head(s) = " " THEN lstrip(Tail(s)) ELSE s

RECURSIVE rstrip(_)
rstrip(s) ==
    IF s # <<>> /\ s[Len(s)] = " " THEN rstrip(SubSeq(s, 1, Len(s) - 1)) ELSE s

\* str.strip()
strip(s) == rstrip(lstrip(s))

RECURSIVE digits_value(_, _)
digits_value(s, acc) ==
    IF s = <<>> THEN acc ELSE digits_value(Tail(s), acc * 10 + DigitValue(Head(s)))

\* int(s) of a str: an optional sign and decimal digits, surrounding blanks
\* ignored; anything else raises ValueError (ok = FALSE).
int(s) ==
    LET t == strip(s)
        signed == t # <<>> /\ Head(t) \in {"+", "-"}
        body == IF signed THEN Tail(t) ELSE t
    IN  IF body = <<>> \/ \E i \in 1..Len(body) : ~IsDigit(body[i])
        THEN [ok |-> FALSE, val |-> 0]
        ELSE [ok |-> TRUE,
              val |-> IF signed /\ Head(t) = "-" THEN 0 - digits_value(body, 0)
                      ELSE digits_value(body, 0)]

\* ------------------------------------------------------------------ geometry

\* __init__: the attributes of a generator.
CoverArtGenerator(dimension, image_size, skip_missing, show_caa_image_for_missing_covers) ==
    [dimension |-> dimension,
     image_size |-> image_size,
     skip_missing |-> skip_missing,
     show_caa_image_for_missing_covers |-> show_caa_image_for_missing_covers,
     tile_size |-> image_size \div dimension]

\* get_tile_position: (x1, y1, x2, y2), or no position for a tile off the grid.
get_tile_position(gen, tile) ==
    IF tile < 0 \/ tile >= gen.dimension * gen.dimension THEN NoBox
    ELSE LET x == tile % gen.dimension
             y == tile \div gen.dimension
             x1 == x * gen.tile_size
             y1 == y * gen.tile_size
             x2 == IF x = gen.dimension - 1 THEN gen.image_size - 1
                   ELSE (x + 1) * gen.tile_size
             y2 == IF y = gen.dimension - 1 THEN gen.image_size - 1
                   ELSE (y + 1) * gen.tile_size
         IN  <<x1, y1, x2, y2>>

\* The tiles of an address: address.split(","), each piece through
\* int(piece.strip()); ok = FALSE when a piece raises ValueError.
RECURSIVE parse_pieces(_)
parse_pieces(pieces) ==
    IF pieces = <<>> THEN [ok |-> TRUE, tiles |-> <<>>]
    ELSE LET n == int(strip(Head(pieces)))
             rest == parse_pieces(Tail(pieces))
         IN  IF n.ok /\ rest.ok THEN [ok |-> TRUE, tiles |-> <<n.val>> \o rest.tiles]
             ELSE [ok |-> FALSE, tiles |-> <<>>]

parse_tiles(address) == parse_pieces(split(address, ","))

\* bb_merge without its last two lines: the maximum taken over the first
\* corner of each tile only.
bb_merge_first_corner_only(bb, pos) ==
    <<Min(Min(bb[1], pos[1]), pos[3]),
      Min(Min(bb[2], pos[2]), pos[4]),
      Max(bb[3], pos[1]),
      Max(bb[4], pos[2])>>

\* One pass of the bounding-box loop for a tile after the first: the running
\* minimum and maximum over both corners of the tile's rectangle.
bb_merge(bb, pos) ==
    <<Min(Min(bb[1], pos[1]), pos[3]),
      Min(Min(bb[2], pos[2]), pos[4]),
      Max(Max(bb[3], pos[1]), pos[3]),
      Max(Max(bb[4], pos[2]), pos[4])>>

RECURSIVE bb_loop(_, _, _, _)
bb_loop(gen, tiles, i, bb) ==
    IF i > Len(tiles) THEN bb
    ELSE LET pos == get_tile_position(gen, tiles[i])
         IN  bb_loop(gen, tiles, i + 1, IF i = 1 THEN pos ELSE bb_merge(bb, pos))

\* calculate_bounding_box: the box of an address, NoBox for an address that does
\* not parse or names a tile off the grid.
calculate_bounding_box(gen, address) ==
    LET parsed == parse_tiles(address)
    IN  IF ~parsed.ok THEN NoBox
        ELSE IF \E i \in 1..Len(parsed.tiles) :
                    parsed.tiles[i] < 0 \/ parsed.tiles[i] >= gen.dimension * gen.dimension
        THEN NoBox
        ELSE bb_loop(gen, parsed.tiles, 1, NoBox)

\* ------------------------------------------------------- placement of covers

\* str(cover_art_size) for the two sizes that reach the f-string.
SizeStr(cover_art_size) == IF cover_art_size = 250 THEN "250" ELSE "500"

\* resolve_cover_art: the archive.org thumbnail URL, None for any other size.
resolve_cover_art(caa_id, caa_release_mbid, cover_art_size) ==
    IF cover_art_size \notin {250, 500} THEN UrlNone
    ELSE <<"https://archive.org/download/mbid-", caa_release_mbid, "/mbid-",
           caa_release_mbid, "-", caa_id, "_thumb", SizeStr(cover_art_size), ".jpg">>

\* cover = {} at the top of every pass of the while loop.
EmptyCover == [k \in {} |-> None]

\* dict.get(key): None for a missing key.
dict_get(d, key) == IF key \in DOMAIN d THEN d[key] ELSE None

\* covers.pop(0): the list after the pop (the popped element is its Head).
pop_rest(cs) == Tail(cs)

\* skips with the skip_missing test lost: no cover is passed over.
skips_never(gen) == FALSE

\* if self.skip_missing: whether a popped cover that has no caa_id is passed over.
skips(gen) == gen.skip_missing

\* The url of a popped cover that has no caa_id and is not skipped.
missing_cover_url(gen) ==
    IF gen.show_caa_image_for_missing_covers THEN CAA_MISSING_IMAGE ELSE UrlNone

\* exhausted_outcome with the show_caa_image_for_missing_covers test lost: the
\* placeholder whatever the flag.
exhausted_outcome_always_placeholder(gen, cs, cover, popped) ==
    [covers |-> cs,
     cover |-> cover,
     url |-> CAA_MISSING_IMAGE,
     popped |-> popped,
     exhausted |-> TRUE]

\* The except IndexError branch: the list is empty when a tile asks for a cover.
exhausted_outcome(gen, cs, cover, popped) ==
    [covers |-> cs,
     cover |-> cover,
     url |-> IF gen.show_caa_image_for_missing_covers THEN CAA_MISSING_IMAGE
             ELSE UrlNone,
     popped |-> popped,
     exhausted |-> TRUE]

\* The while True loop of one tile: pop covers until one is kept or the list
\* is empty.  popped counts the pops of this tile (a trace, not a Python value).
RECURSIVE resolve_tile(_, _, _, _)
resolve_tile(gen, cs, cover_art_size, popped) ==
    IF cs = <<>> THEN exhausted_outcome(gen, cs, EmptyCover, popped)
    ELSE LET cover == Head(cs)
             rest == pop_rest(cs)
         IN  IF cover.caa_id = None
             THEN IF skips(gen)
                  THEN resolve_tile(gen, rest, cover_art_size, popped + 1)
                  ELSE [covers |-> rest, cover |-> cover,
                        url |-> missing_cover_url(gen),
                        popped |-> popped + 1, exhausted |-> FALSE]
             ELSE [covers |-> rest, cover |-> cover,
                   url |-> resolve_cover_art(cover.caa_id, cover.caa_release_mbid,
                                             cover_art_size),
                   popped |-> popped + 1, exhausted |-> FALSE]

\* The dict appended to images for a tile whose url is not None.
placed_image(box, url, cover) ==
    [x |-> box[1],
     y |-> box[2],
     width |-> box[3] - box[1],
     height |-> box[4] - box[2],
     url |-> url,
     entity_mbid |-> dict_get(cover, "entity_mbid"),
     title |-> dict_get(cover, "title"),
     artist |-> dict_get(cover, "artist")]

\* place_tiles reading covers[0] where it pops: every tile sees the same list.
RECURSIVE place_tiles_without_pop(_, _, _, _, _, _, _)
place_tiles_without_pop(gen, tiles, cs, cover_art_size, n0, images, trace) ==
    IF tiles = <<>> THEN [covers |-> cs, images |-> images, trace |-> trace]
    ELSE LET r == resolve_tile(gen, cs, cover_art_size, 0)
             out == IF r.url # UrlNone
                    THEN Append(images, placed_image(Head(tiles), r.url, r.cover))
                    ELSE images
             entry == [first |-> n0 - Len(cs) + 1,
                       popped |-> r.popped,
                       exhausted |-> r.exhausted,
                       emitted |-> Len(out)]
         IN  place_tiles_without_pop(gen, Tail(tiles), cs, cover_art_size, n0, out,
                                     Append(trace, entry))

\* for x1, y1, x2, y2 in tiles: the images, the list as the loop leaves it, and
\* per tile a trace entry: first, the position in the call's list of the first
\* cover the tile popped; popped, how many it popped; exhausted, whether it met
\* the empty list; emitted, the length of images after the tile.
RECURSIVE place_tiles(_, _, _, _, _, _, _)
place_tiles(gen, tiles, cs, cover_art_size, n0, images, trace) ==
    IF tiles = <<>> THEN [covers |-> cs, images |-> images, trace |-> trace]
    ELSE LET r == resolve_tile(gen, cs, cover_art_size, 0)
             out == IF r.url # UrlNone
                    THEN Append(images, placed_image(Head(tiles), r.url, r.cover))
                    ELSE images
             entry == [first |-> n0 - Len(cs) + 1,
                       popped |-> r.popped,
                       exhausted |-> r.exhausted,
                       emitted |-> Len(out)]
         IN  place_tiles(gen, Tail(tiles), r.covers, cover_art_size, n0, out,
                         Append(trace, entry))

\* The choice of addrs: a layout of the catalog, the default design, or the
\* caller's tile addresses.  A layout index the catalog does not hold raises
\* IndexError.
select_addrs(gen, tile_addrs, layout) ==
    IF layout # <<>>
    THEN IF layout[1] + 1 \in 1..Len(GRID_TILE_DESIGNS[gen.dimension])
         THEN [raised |-> "", addrs |-> GRID_TILE_DESIGNS[gen.dimension][layout[1] + 1]]
         ELSE [raised |-> "IndexError", addrs |-> <<>>]
    ELSE IF tile_addrs = <<>>
    THEN [raised |-> "", addrs |-> GRID_TILE_DESIGNS[gen.dimension][1]]
    ELSE [raised |-> "", addrs |-> tile_addrs[1]]

\* The bounding boxes of all the addresses, computed before any cover is popped.
RECURSIVE bounding_boxes(_, _)
bounding_boxes(gen, addrs) ==
    IF addrs = <<>> THEN <<>>
    ELSE <<calculate_bounding_box(gen, Head(addrs))>> \o bounding_boxes(gen, Tail(addrs))

\* generate_from_caa_ids with each box computed as its tile comes up: the tiles
\* before a bad address pop their covers before the raise.
generate_from_caa_ids_box_per_tile(gen, cs, tile_addrs, layout, cover_art_size) ==
    LET sel == select_addrs(gen, tile_addrs, layout)
        tiles == bounding_boxes(gen, sel.addrs)
        bad == {i \in 1..Len(tiles) : tiles[i] = NoBox}
        upto == IF bad = {} THEN Len(tiles)
                ELSE (CHOOSE i \in bad : \A j \in bad : i <= j) - 1
        done == place_tiles(gen, SubSeq(tiles, 1, upto), cs, cover_art_size,
                            Len(cs), <<>>, <<>>)
    IN  IF sel.raised # ""
        THEN [raised |-> sel.raised, covers |-> cs, images |-> <<>>,
              tiles |-> <<>>, trace |-> <<>>]
        ELSE IF bad # {}
        THEN [raised |-> "ValueError", covers |-> done.covers, images |-> <<>>,
              tiles |-> tiles, trace |-> <<>>]
        ELSE [raised |-> "", covers |-> done.covers, images |-> done.images,
              tiles |-> tiles, trace |-> done.trace]

\* generate_from_caa_ids: raised, the exception that ends the call ("" for a
\* return); images, the returned list; covers, the caller's list afterwards.
generate_from_caa_ids(gen, cs, tile_addrs, layout, cover_art_size) ==
    LET sel == select_addrs(gen, tile_addrs, layout)
        tiles == bounding_boxes(gen, sel.addrs)
    IN  IF sel.raised # ""
        THEN [raised |-> sel.raised, covers |-> cs, images |-> <<>>,
              tiles |-> <<>>, trace |-> <<>>]
        ELSE IF \E i \in 1..Len(tiles) : tiles[i] = NoBox
        THEN [raised |-> "ValueError", covers |-> cs, images |-> <<>>,
              tiles |-> tiles, trace |-> <<>>]
        ELSE LET done == place_tiles(gen, tiles, cs, cover_art_size, Len(cs), <<>>, <<>>)
             IN  [raised |-> "", covers |-> done.covers, images |-> done.images,
                  tiles |-> tiles, trace |-> done.trace]

\* ------------------------------------------------------------------- inputs

MaxCovers == 3
MaxAddrs == 2

\* The covers a caller can put in a list: the cover at position i names release
\* i; its caa_id and caa_release_mbid are both set or both None, as the rows of
\* get_caa_ids_for_release_mbids are.
ReleaseMbids == <<"mbid-1", "mbid-2", "mbid-3", "mbid-4", "mbid-5", "mbid-6">>
Titles == <<"title-1", "title-2", "title-3", "title-4", "title-5", "title-6">>
Artists == <<"artist-1", "artist-2", "artist-3", "artist-4", "artist-5", "artist-6">>
CaaIds == <<"caa-1", "caa-2", "caa-3", "caa-4", "caa-5", "caa-6">>

Cover(i, has_art) ==
    [entity_mbid |-> ReleaseMbids[i],
     title |-> Titles[i],
     artist |-> Artists[i],
     caa_id |-> IF has_art THEN CaaIds[i] ELSE None,
     caa_release_mbid |-> IF has_art THEN ReleaseMbids[i] ELSE None]

CoverLists ==
    UNION {{[i \in 1..n |-> Cover(i, has[i])] : has \in [1..n -> BOOLEAN]} :
           n \in 0..MaxCovers}

\* Tile addresses a caller can pass: "0"; "1, 4", which is off the grid of
\* dimension 2 and a pair of tiles on the others; "x", which is no integer.
SampleAddrs ==
    {<<"0">>, <<"1", ",", " ", "4">>, <<"x">>}

TileAddrLists ==
    UNION {[1..n -> SampleAddrs] : n \in 0..MaxAddrs}

\* The two sizes resolve_cover_art knows and one it does not.
CoverArtSizes == {250, 500, 100}

\* The layout indexes a caller can pass: those of the longest catalog entry and
\* one past it.
Layouts == 0..Len(GRID_TILE_DESIGNS[4])

\* (tile_addrs, layout) as a caller gives them; <<>> is None.
AddrArgs ==
    {<<<<>>, <<>>>>}
    \cup {<<<<>>, <<l>>>> : l \in Layouts}
    \cup {<<<<ta>>, <<>>>> : ta \in TileAddrLists}
    \cup {<<<<ta>>, <<0>>>> : ta \in {<<<<"x">>>>}}

\* ----------------------------------------------------------------- the calls

NoCall == [op |-> "none"]

\* generate_from_caa_ids(covers, tile_addrs, layout, cover_art_size) on the
\* list the caller holds: a first call, or the call before made again with the
\* same arguments and the same list object.  before is the list as the call
\* found it; prev is the outcome of the call before, <<>> for a first call.
GenerateFromCaaIds(tile_addrs, layout, cover_art_size) ==
    LET again == /\ ret.op = "generate_from_caa_ids"
                 /\ ret.tile_addrs = tile_addrs
                 /\ ret.layout = layout
                 /\ ret.cover_art_size = cover_art_size
        r == generate_from_caa_ids(self, covers, tile_addrs, layout, cover_art_size)
    IN  /\ ret.op = "none" \/ again
        /\ covers' = r.covers
        /\ ret' = [op |-> "generate_from_caa_ids",
                   tile_addrs |-> tile_addrs,
                   layout |-> layout,
                   cover_art_size |-> cover_art_size,
                   before |-> covers,
                   raised |-> r.raised,
                   images |-> r.images,
                   tiles |-> r.tiles,
                   trace |-> r.trace,
                   prev |-> IF again
                            THEN <<[raised |-> ret.raised, images |-> ret.images]>>
                            ELSE <<>>]
        /\ UNCHANGED <<self, users, stats, db_calls>>

\* After construction: a generator, and a caller that holds a list of covers.
Init ==
    /\ \E d \in MIN_DIMENSION..MAX_DIMENSION, s \in {MAX_IMAGE_SIZE},
          skip \in BOOLEAN, show \in BOOLEAN :
          self = CoverArtGenerator(d, s, skip, show)
    /\ covers \in CoverLists
    /\ ret = NoCall
    /\ users = <<>>
    /\ stats = <<>>
    /\ db_calls = <<>>

Next ==
    \E a \in AddrArgs, size \in CoverArtSizes : GenerateFromCaaIds(a[1], a[2], size)

Spec == Init /\ [][Next]_vars

\* ------------------------------------------------ properties of the placement

Called == ret.op = "generate_from_caa_ids"
Returned == Called /\ ret.raised = ""

\* The images emitted before tile k, whether tile k emitted one, and which.
EmittedBefore(k) == IF k = 1 THEN 0 ELSE ret.trace[k - 1].emitted
HasImage(k) == ret.trace[k].emitted = EmittedBefore(k) + 1
ImageOf(k) == ret.images[ret.trace[k].emitted]

\* The position, in the list the call found, of the last cover tile k popped.
Kept(k) == ret.trace[k].first + ret.trace[k].popped - 1

\* The positions of the call's list that hold the release an image names.
PositionsOf(mbid) ==
    {p \in 1..Len(ret.before) : ret.before[p].entity_mbid = mbid}

\* C1: every tile pops covers that follow those the tiles before it popped, so
\* no cover is popped twice; a tile emits at most one image, placed at the box
\* of that tile, so images follow the order of the addresses; an image that
\* names a release names the cover its tile kept, each cover is named by at
\* most one image, and the named covers are in the order of the list; the
\* caller's list is left holding exactly the covers no tile popped.
C1_EachCandidateOnceInOrder ==
    Returned =>
        /\ Len(ret.trace) = Len(ret.tiles)
        /\ \A k \in 1..Len(ret.trace) :
              /\ ret.trace[k].first =
                    (IF k = 1 THEN 1 ELSE ret.trace[k - 1].first + ret.trace[k - 1].popped)
              /\ Kept(k) <= Len(ret.before)
              /\ ret.trace[k].emitted - EmittedBefore(k) \in {0, 1}
              /\ ret.trace[k].emitted <= Len(ret.images)
              /\ HasImage(k) =>
                    /\ ImageOf(k).x = ret.tiles[k][1]
                    /\ ImageOf(k).y = ret.tiles[k][2]
                    /\ ImageOf(k).width = ret.tiles[k][3] - ret.tiles[k][1]
                    /\ ImageOf(k).height = ret.tiles[k][4] - ret.tiles[k][2]
                    /\ IF ret.trace[k].exhausted
                       THEN ImageOf(k).entity_mbid = None
                       ELSE /\ ImageOf(k).entity_mbid = ret.before[Kept(k)].entity_mbid
                            /\ ImageOf(k).title = ret.before[Kept(k)].title
                            /\ ImageOf(k).artist = ret.before[Kept(k)].artist
        /\ Len(ret.images) =
              (IF ret.trace = <<>> THEN 0 ELSE ret.trace[Len(ret.trace)].emitted)
        /\ \A i \in 1..Len(ret.images) :
              ret.images[i].entity_mbid # None =>
                  Cardinality(PositionsOf(ret.images[i].entity_mbid)) = 1
        /\ \A i, j \in 1..Len(ret.images) :
              (i < j /\ ret.images[i].entity_mbid # None
                     /\ ret.images[j].entity_mbid # None) =>
                  \A p \in PositionsOf(ret.images[i].entity_mbid),
                     q \in PositionsOf(ret.images[j].entity_mbid) : p < q
        /\ covers = SubSeq(ret.before, Len(ret.before) - Len(covers) + 1, Len(ret.before))
        /\ Len(ret.before) - Len(covers) =
              (IF ret.trace = <<>> THEN 0 ELSE Kept(Len(ret.trace)))

\* Three covers with artwork on two or more tiles: the first two tiles carry
\* the first two covers.
C1_Witness ==
    /\ Returned
    /\ Len(ret.before) = 3
    /\ Len(ret.images) >= 2
    /\ ret.images[1].entity_mbid = ret.before[1].entity_mbid
    /\ ret.images[2].entity_mbid = ret.before[2].entity_mbid
    /\ Len(covers) = 1

\* C2: with skip_missing set, every cover a tile pops before the one it keeps
\* has no caa_id, and names no image; the cover a tile keeps is the next cover
\* of the list that has a caa_id, and the tile's image carries it (an image is
\* emitted when resolve_cover_art gives a URL, as it does for sizes 250 and 500);
\* a tile keeps none only when no cover with a caa_id is left.  [no artwork,
\* artwork] on one tile gives one image, of the second cover.
C2_SkipMissingDiscards ==
    (Returned /\ self.skip_missing) =>
        /\ \A k \in 1..Len(ret.trace) :
              /\ \A p \in ret.trace[k].first..(Kept(k) - 1) : ret.before[p].caa_id = None
              /\ ret.trace[k].exhausted =>
                    \A p \in ret.trace[k].first..Len(ret.before) :
                        ret.before[p].caa_id = None
              /\ ~ret.trace[k].exhausted =>
                    LET cover == ret.before[Kept(k)]
                        url == resolve_cover_art(cover.caa_id, cover.caa_release_mbid,
                                                 ret.cover_art_size)
                    IN  /\ cover.caa_id # None
                        /\ HasImage(k) = (ret.cover_art_size \in {250, 500})
                        /\ HasImage(k) =>
                              /\ ImageOf(k).entity_mbid = cover.entity_mbid
                              /\ ImageOf(k).url = url
        /\ \A i \in 1..Len(ret.images), p \in 1..Len(ret.before) :
              ret.before[p].caa_id = None =>
                  ret.images[i].entity_mbid # ret.before[p].entity_mbid
        /\ (/\ Len(ret.before) = 2
            /\ ret.before[1].caa_id = None
            /\ ret.before[2].caa_id # None
            /\ Len(ret.tiles) = 1
            /\ ret.cover_art_size \in {250, 500}) =>
               /\ Len(ret.images) = 1
               /\ ret.images[1].entity_mbid = ret.before[2].entity_mbid

\* Example 3: [no artwork, artwork], one tile, skip_missing set.
C2_Witness ==
    /\ Returned
    /\ self.skip_missing
    /\ Len(ret.before) = 2
    /\ ret.before[1].caa_id = None
    /\ ret.before[2].caa_id # None
    /\ Len(ret.tiles) = 1
    /\ ret.trace[1].popped = 2
    /\ Len(ret.images) = 1
    /\ ret.images[1].entity_mbid = "mbid-2"
    /\ covers = <<>>

\* Tile k finds the list run out: every cover from the tile's first position on
\* is one that is passed over.
RunsOut(k) ==
    \A p \in ret.trace[k].first..Len(ret.before) :
        self.skip_missing /\ ret.before[p].caa_id = None

\* C3: a tile meets the empty list exactly when the list has run out for it;
\* such a tile emits, with show_caa_image_for_missing_covers, exactly one image,
\* whose url is the placeholder and whose entity_mbid, title and artist are
\* None, and without it no image; the same holds of every later tile.
C3_ExhaustedPolicyOnce ==
    Returned =>
        \A k \in 1..Len(ret.trace) :
            /\ ret.trace[k].exhausted = RunsOut(k)
            /\ RunsOut(k) =>
                  /\ \A j \in k..Len(ret.trace) : RunsOut(j)
                  /\ IF self.show_caa_image_for_missing_covers
                     THEN /\ HasImage(k)
                          /\ ImageOf(k).url = CAA_MISSING_IMAGE
                          /\ ImageOf(k).entity_mbid = None
                          /\ ImageOf(k).title = None
                          /\ ImageOf(k).artist = None
                     ELSE ret.trace[k].emitted = EmittedBefore(k)

\* Two tiles, one cover without artwork, skipped by the first tile, which then
\* finds the list empty, as the second does: two placeholders.
C3_Witness ==
    /\ Returned
    /\ self.skip_missing
    /\ self.show_caa_image_for_missing_covers
    /\ Len(ret.before) = 1
    /\ Len(ret.trace) = 2
    /\ ret.trace[1].popped = 1
    /\ ret.trace[1].exhausted
    /\ ret.trace[2].exhausted
    /\ Len(ret.images) = 2
    /\ ret.images[1].url = CAA_MISSING_IMAGE
    /\ ret.images[1].entity_mbid = None

\* C4: a call made again with the same arguments and the same list has the
\* outcome of the call before.
C4_RepeatedCallIdentical ==
    (Called /\ ret.prev # <<>>) =>
        ret.prev[1] = [raised |-> ret.raised, images |-> ret.images]

\* The tiles a design lists, address by address.
RECURSIVE design_tiles(_)
design_tiles(design) ==
    IF design = <<>> THEN <<>>
    ELSE parse_tiles(Head(design)).tiles \o design_tiles(Tail(design))

IsPartition(design, dimension) ==
    LET listed == design_tiles(design)
    IN  /\ \A i \in 1..Len(design) : parse_tiles(design[i]).ok
        /\ Len(listed) = dimension * dimension
        /\ {listed[i] : i \in 1..Len(listed)} = 0..(dimension * dimension - 1)

CatalogPartitions ==
    /\ DOMAIN GRID_TILE_DESIGNS = MIN_DIMENSION..MAX_DIMENSION
    /\ \A d \in MIN_DIMENSION..MAX_DIMENSION :
          \A l \in 1..Len(GRID_TILE_DESIGNS[d]) :
              IsPartition(GRID_TILE_DESIGNS[d][l], d)

\* C5: every design of every dimension lists each tile 0..d*d-1 exactly once;
\* so does the design a call takes from the catalog.
C5_CatalogPartition ==
    /\ CatalogPartitions
    /\ (Returned /\ (ret.layout # <<>> \/ ret.tile_addrs = <<>>)) =>
          IsPartition(select_addrs(self, ret.tile_addrs, ret.layout).addrs,
                      self.dimension)

\* A call that took the second design of dimension 5, of merged cells.
C5_Witness ==
    /\ Returned
    /\ self.dimension = 5
    /\ ret.layout = <<1>>
    /\ Len(ret.tiles) = Len(DESIGNS_5[2])
    /\ Len(ret.images) > 0

\* An address with a piece that is no integer or a tile off the grid.
InvalidAddress(gen, address) ==
    LET parsed == parse_tiles(address)
    IN  \/ ~parsed.ok
        \/ \E i \in 1..Len(parsed.tiles) :
              parsed.tiles[i] \notin 0..(gen.dimension * gen.dimension - 1)

AddrsOfCall == select_addrs(self, ret.tile_addrs, ret.layout)

\* C10: a call whose addresses hold an invalid one, at any place, raises
\* ValueError, returns no image and leaves the caller's list as it found it.
C10_InvalidAddressFailsWholeCall ==
    (/\ Called
     /\ AddrsOfCall.raised = ""
     /\ \E i \in 1..Len(AddrsOfCall.addrs) : InvalidAddress(self, AddrsOfCall.addrs[i])) =>
        /\ ret.raised = "ValueError"
        /\ ret.images = <<>>
        /\ covers = ret.before

\* A valid address, then a bad one, with covers in the list.
C10_Witness ==
    /\ Called
    /\ ret.tile_addrs = <<<<(<<"0">>), (<<"x">>)>>>>
    /\ Len(ret.before) = 2
    /\ ret.raised = "ValueError"
    /\ covers = ret.before

\* ----------------------------------------------------- the geometry, alone

MaxSizeOffset == 4
MaxAddrTiles == 2

\* Image sizes: the smallest ones, one for every remainder by a dimension, 500
\* and the largest.
GeometrySizes ==
    {MIN_IMAGE_SIZE + k : k \in 0..MaxSizeOffset} \cup {500, MAX_IMAGE_SIZE}

\* str(n) for a tile number, and ",".join of such.
TileStr(n) ==
    IF n < 10 THEN <<Digits[n + 1]>>
    ELSE <<Digits[(n \div 10) + 1], Digits[(n % 10) + 1]>>

RECURSIVE AddressOf(_)
AddressOf(tiles) ==
    IF Len(tiles) = 1 THEN TileStr(tiles[1])
    ELSE TileStr(tiles[1]) \o <<",">> \o AddressOf(Tail(tiles))

\* The addresses a caller asks the box of: every list of up to MaxAddrTiles
\* tiles of the grid or the first tile off it, in every order; the addresses
\* of the catalog; addresses with blanks, with a piece that is no integer,
\* with a negative tile, and the empty str.
CatalogAddrs(dimension) ==
    UNION {{GRID_TILE_DESIGNS[dimension][l][i] :
                i \in 1..Len(GRID_TILE_DESIGNS[dimension][l])} :
           l \in 1..Len(GRID_TILE_DESIGNS[dimension])}

GeometryAddrs(gen) ==
    {AddressOf(ts) :
        ts \in UNION {[1..n -> 0..(gen.dimension * gen.dimension)] :
                      n \in 1..MaxAddrTiles}}
    \cup CatalogAddrs(gen.dimension)
    \cup SampleAddrs
    \cup {<<" ", "3", " ", ",", "2">>, <<"-", "1">>, <<"0", ",">>, <<>>}

\* get_tile_position(tile) on a generator no call was made on.
GetTilePosition(tile) ==
    /\ ret = NoCall
    /\ ret' = [op |-> "get_tile_position",
               tile |-> tile,
               pos |-> get_tile_position(self, tile)]
    /\ UNCHANGED <<self, covers, users, stats, db_calls>>

\* calculate_bounding_box(address) on a generator no call was made on.
CalculateBoundingBox(address) ==
    /\ ret = NoCall
    /\ ret' = [op |-> "calculate_bounding_box",
               address |-> address,
               box |-> calculate_bounding_box(self, address)]
    /\ UNCHANGED <<self, covers, users, stats, db_calls>>

\* After construction, with the constructor's defaults for the two flags.
InitGeometry ==
    /\ \E d \in MIN_DIMENSION..MAX_DIMENSION, s \in GeometrySizes :
          self = CoverArtGenerator(d, s, TRUE, TRUE)
    /\ covers = <<>>
    /\ ret = NoCall
    /\ users = <<>>
    /\ stats = <<>>
    /\ db_calls = <<>>

NextGeometry ==
    /\ ret = NoCall
    /\ \/ \E tile \in -1..(self.dimension * self.dimension) : GetTilePosition(tile)
       \/ \E address \in GeometryAddrs(self) : CalculateBoundingBox(address)

SpecGeometry == InitGeometry /\ [][NextGeometry]_vars

\* ---------------------------------------------------- properties of geometry

GridTiles(gen) == 0..(gen.dimension * gen.dimension - 1)

\* A pixel in a rectangle (x1, y1, x2, y2) read as its two corners, both in it.
InCorners(r, px, py) == r[1] <= px /\ px <= r[3] /\ r[2] <= py /\ py <= r[4]

\* A pixel in a rectangle read as generate_from_caa_ids emits it: the origin
\* (x1, y1) and the extent (x2 - x1, y2 - y1).
InExtent(r, px, py) == r[1] <= px /\ px < r[3] /\ r[2] <= py /\ py < r[4]

\* Every pixel of the image in the rectangle of exactly one tile.
ExactCover(gen, In(_, _, _)) ==
    \A px \in 0..(gen.image_size - 1), py \in 0..(gen.image_size - 1) :
        Cardinality({t \in GridTiles(gen) : In(get_tile_position(gen, t), px, py)}) = 1

\* C6: the rectangles of the tiles of the grid cover the image exactly, no pixel
\* in none and none in two, and a tile of the last column or row ends at
\* image_size - 1.
C6_TilesCoverImageExactly ==
    (ret.op = "get_tile_position" /\ ret.pos # NoBox) =>
        /\ ret.tile % self.dimension = self.dimension - 1 =>
              ret.pos[3] = self.image_size - 1
        /\ ret.tile \div self.dimension = self.dimension - 1 =>
              ret.pos[4] = self.image_size - 1
        /\ ExactCover(self, InCorners) \/ ExactCover(self, InExtent)

\* The tiles an address names.
AddressTiles(address) ==
    LET tiles == parse_tiles(address).tiles
    IN  {tiles[i] : i \in 1..Len(tiles)}

RECURSIVE Reversed(_)
Reversed(s) == IF s = <<>> THEN <<>> ELSE Append(Reversed(Tail(s)), Head(s))

\* C7: the box of a valid address contains the rectangle of every tile it
\* names and each of its sides is a side of one of them, so it is the smallest
\* such rectangle; the address with its tiles in the opposite order has the
\* same box; the box of one tile is the position of the tile.
C7_BoundingBoxIsSmallestCover ==
    (ret.op = "calculate_bounding_box" /\ ~InvalidAddress(self, ret.address)) =>
        LET tiles == parse_tiles(ret.address).tiles
            named == AddressTiles(ret.address)
        IN  /\ ret.box # NoBox
            /\ \A t \in named :
                  LET pos == get_tile_position(self, t)
                  IN  /\ ret.box[1] <= pos[1]
                      /\ ret.box[2] <= pos[2]
                      /\ ret.box[3] >= pos[3]
                      /\ ret.box[4] >= pos[4]
            /\ \A side \in 1..4 :
                  \E t \in named : ret.box[side] = get_tile_position(self, t)[side]
            /\ ret.box = calculate_bounding_box(self, AddressOf(Reversed(tiles)))
            /\ Len(tiles) = 1 => ret.box = get_tile_position(self, tiles[1])

\* The address "3,0" of a grid whose image size the dimension does not divide:
\* two tiles, the later one first, the box from tile 0 to tile 3.
C7_Witness ==
    /\ ret.op = "calculate_bounding_box"
    /\ ret.address = <<"3", ",", "0">>
    /\ self.dimension = 3
    /\ self.image_size = MIN_IMAGE_SIZE
    /\ ret.box = <<0, 0, 42, 84>>

\* ------------------------------------------------------ the statistics adapter

\* The keys of time_range_to_english.
time_range_to_english ==
    [week |-> "last week",
     month |-> "last month",
     quarter |-> "last quarter",
     half_yearly |-> "last 6 months",
     year |-> "last year",
     all_time |-> "of all time",
     this_week |-> "this week",
     this_month |-> "this month",
     this_year |-> "this year"]

\* StatisticsRange.__members__: the enumeration of time ranges, defined outside
\* this file; its members are the ranges time_range_to_english has a text for.
StatisticsRangeMembers ==
    {"week", "month", "quarter", "half_yearly", "year", "all_time",
     "this_week", "this_month", "this_year"}

StatsEntities == {"artists", "releases", "recordings"}

NoError == [exc |-> "", msg |-> <<>>]
ValueError(msg) == [exc |-> "ValueError", msg |-> msg]
KeyError(key) == [exc |-> "KeyError", msg |-> <<key>>]

\* db_user.get_by_mb_id(db_conn, user_name): the user's row or None (<<>>).
get_by_mb_id(user_table, user_name) ==
    IF user_name \in DOMAIN user_table THEN user_table[user_name] ELSE <<>>

\* db_stats.get(user_id, entity, time_range, EntityRecord): the stored
\* statistics or None (<<>>).
db_stats_get(stats_table, user_id, entity, time_range) ==
    IF <<user_id, entity, time_range>> \in DOMAIN stats_table
    THEN stats_table[<<user_id, entity, time_range>>]
    ELSE <<>>

\* data[:NUMBER_OF_STATS]
first_stats(data) ==
    SubSeq(data, 1, IF Len(data) < NUMBER_OF_STATS THEN Len(data) ELSE NUMBER_OF_STATS)

\* download_user_stats with the user looked up before the arguments are
\* checked.
download_user_stats_lookup_first(user_table, stats_table, entity, user_name, time_range) ==
    LET user == get_by_mb_id(user_table, user_name)
        lookup == <<<<"db_user.get_by_mb_id", user_name>>>>
    IN  IF time_range \notin StatisticsRangeMembers
        THEN [raised |-> ValueError(<<"Invalid date range given.">>),
              value |-> <<>>, calls |-> lookup]
        ELSE IF entity \notin StatsEntities
        THEN [raised |->
                  ValueError(<<"Stats entity must be one of artist, release or recording.">>),
              value |-> <<>>, calls |-> lookup]
        ELSE IF user = <<>>
        THEN [raised |-> ValueError(<<"User ", user_name, " not found">>),
              value |-> <<>>, calls |-> lookup]
        ELSE LET found == db_stats_get(stats_table, user[1].id, entity, time_range)
                 both == lookup \o <<<<"db_stats.get", user[1].id, entity, time_range>>>>
             IN  IF found = <<>>
                 THEN [raised |->
                           ValueError(<<"Stats for user ", user_name, " not found/calculated">>),
                       value |-> <<>>, calls |-> both]
                 ELSE [raised |-> NoError,
                       value |-> <<first_stats(found[1].data), found[1].count>>,
                       calls |-> both]

\* download_user_stats: raised, the exception that ends the call; value, the
\* returned (records, count); calls, the store calls made, in order.
download_user_stats(user_table, stats_table, entity, user_name, time_range) ==
    IF time_range \notin StatisticsRangeMembers
    THEN [raised |-> ValueError(<<"Invalid date range given.">>),
          value |-> <<>>, calls |-> <<>>]
    ELSE IF entity \notin StatsEntities
    THEN [raised |->
              ValueError(<<"Stats entity must be one of artist, release or recording.">>),
          value |-> <<>>, calls |-> <<>>]
    ELSE LET user == get_by_mb_id(user_table, user_name)
             lookup == <<<<"db_user.get_by_mb_id", user_name>>>>
         IN  IF user = <<>>
             THEN [raised |-> ValueError(<<"User ", user_name, " not found">>),
                   value |-> <<>>, calls |-> lookup]
             ELSE LET found == db_stats_get(stats_table, user[1].id, entity, time_range)
                      both == lookup \o
                              <<<<"db_stats.get", user[1].id, entity, time_range>>>>
                  IN  IF found = <<>>
                      THEN [raised |->
                                ValueError(<<"Stats for user ", user_name,
                                             " not found/calculated">>),
                            value |-> <<>>, calls |-> both]
                      ELSE [raised |-> NoError,
                            value |-> <<first_stats(found[1].data), found[1].count>>,
                            calls |-> both]

\* The list create_artist_stats_cover holds for the user name "huhridge".
HUHRIDGE_ARTISTS ==
    <<
      [artist_mbid |-> "e520459c-dff4-491d-a6e4-c97be35e0044", artist_name |-> "Frank Ocean", listen_count |-> 20],
      [artist_mbid |-> "875203e1-8e58-4b86-8dcb-7190faf411c5", artist_name |-> "J. Cole", listen_count |-> 13],
      [artist_mbid |-> "e636b15f-00c5-45fd-9c33-845a08c8f92d", artist_name |-> "brakence", listen_count |-> 10],
      [artist_mbid |-> "9fff2f8a-21e6-47de-a2b8-7f449929d43f", artist_name |-> "Drake", listen_count |-> 9],
      [artist_mbid |-> "ab1a3f85-e0ea-470a-af5c-175447ae774c", artist_name |-> "underscores", listen_count |-> 8],
      [artist_mbid |-> "aea4c9b9-9f8d-49dc-b2ca-57d6f26e8634", artist_name |-> "Khruangbin", listen_count |-> 8],
      [artist_mbid |-> "3fd78e94-efeb-43a1-bc19-ad2dd1afbd5a", artist_name |-> "EDEN", listen_count |-> 8],
      [artist_mbid |-> "f6beac20-5dfe-4d1f-ae02-0b0a740aafd6", artist_name |-> "Tyler, the Creator", listen_count |-> 7],
      [artist_mbid |-> "260b6184-8828-48eb-945c-bc4cb6fc34ca", artist_name |-> "Charli XCX", listen_count |-> 7],
      [artist_mbid |-> "f1660eaa-929f-48d4-9926-9aaa61afa52f", artist_name |-> "Teezo Touchdown", listen_count |-> 6],
      [artist_mbid |-> "ab4e7869-86f5-455e-b52c-c89d7664c07b", artist_name |-> "Rainbow Kitten Surprise", listen_count |-> 6],
      [artist_mbid |-> "071409d0-ce21-4f03-a111-aec4dbc1590d", artist_name |-> "Erika de Casier", listen_count |-> 6],
      [artist_mbid |-> "381086ea-f511-4aba-bdf9-71c753dc5077", artist_name |-> "Kendrick Lamar", listen_count |-> 5],
      [artist_mbid |-> "8dc08b1f-e393-4f85-a5dd-300f7693a8b8", artist_name |-> "James Blake", listen_count |-> 5],
      [artist_mbid |-> "null", artist_name |-> "\\u00a5$, Kanye West, Ty Dolla $ign", listen_count |-> 4],
      [artist_mbid |-> "164f0d73-1234-4e2c-8743-d77bf2191051", artist_name |-> "Ye", listen_count |-> 4],
      [artist_mbid |-> "61af87f4-16ee-4431-8504-cc06187079fb", artist_name |-> "XXXTENTACION", listen_count |-> 4],
      [artist_mbid |-> "926ea44c-0efa-455a-b7ce-00ccb5a86cb7", artist_name |-> "Kyle Dion", listen_count |-> 4],
      [artist_mbid |-> "00d0f0fa-a48c-416d-b4ff-25a290ce82d8", artist_name |-> "half\\u2022alive", listen_count |-> 3],
      [artist_mbid |-> "8032cf05-d916-4b2a-9c53-6e75d4a24bd8", artist_name |-> "Trippie Redd", listen_count |-> 3],
      [artist_mbid |-> "87b9b3b8-ab93-426c-a200-4012d667a626", artist_name |-> "The War on Drugs", listen_count |-> 3],
      [artist_mbid |-> "aa5a6061-e60d-4a58-b9f6-c09de390bb2d", artist_name |-> "PnB Rock", listen_count |-> 3],
      [artist_mbid |-> "592da4c4-9618-4a1a-a944-e60c05c39037", artist_name |-> "Patrick Watson", listen_count |-> 3],
      [artist_mbid |-> "aa2c5e55-57f5-42a7-a0e4-4a02cd9399b1", artist_name |-> "Oh Wonder", listen_count |-> 3],
      [artist_mbid |-> "dde26295-8cd4-474c-8740-3edb801b2776", artist_name |-> "Maggie Rogers", listen_count |-> 3]
    >>

\* datetime.datetime.now().strftime("%Y-%m-%d"): the day of the call.
Today == "today"

\* create_artist_stats_cover: value is (artists, metadata).
create_artist_stats_cover(user_table, stats_table, user_name, time_range) ==
    IF user_name = "huhridge"
    THEN IF time_range \notin DOMAIN time_range_to_english
         THEN [raised |-> KeyError(time_range), value |-> <<>>, calls |-> <<>>]
         ELSE [raised |-> NoError,
               value |-> <<HUHRIDGE_ARTISTS,
                           [user_name |-> user_name,
                            date |-> Today,
                            time_range |-> time_range_to_english[time_range],
                            num_artists |-> 128]>>,
               calls |-> <<>>]
    ELSE LET got == download_user_stats(user_table, stats_table, "artists",
                                        user_name, time_range)
         IN  IF got.raised # NoError THEN got
             ELSE IF time_range \notin DOMAIN time_range_to_english
             THEN [raised |-> KeyError(time_range), value |-> <<>>, calls |-> got.calls]
             ELSE [raised |-> NoError,
                   value |-> <<got.value[1],
                               [user_name |-> user_name,
                                date |-> Today,
                                time_range |-> time_range_to_english[time_range],
                                num_artists |-> got.value[2]]>>,
                   calls |-> got.calls]

\* ------------------------------------------------------------ the two stores

MaxOverCap == 1
ShortStats == 2

UserNames == {"alice", "huhridge"}
UserId(user_name) == IF user_name = "alice" THEN "id-alice" ELSE "id-huhridge"

\* The user tables: any of the user names may be known.
UserTables ==
    {[u \in known |-> <<[id |-> UserId(u)]>>] : known \in SUBSET UserNames}

\* The time ranges and entities a caller passes: two members each and one that
\* is none.
TimeRangeArgs == {"week", "all_time", "fortnight"}
EntityArgs == StatsEntities \cup {"artist"}

\* Stored statistics: ranked records and the count of all of them.  Those of
\* alice are more than NUMBER_OF_STATS, those of the other user a few.
StatsRow(user_id, entity, time_range) ==
    LET n == IF user_id = "id-alice" THEN NUMBER_OF_STATS + MaxOverCap ELSE ShortStats
    IN  [data |-> [i \in 1..n |->
                      [artist_mbid |-> None,
                       artist_name |-> entity,
                       listen_count |-> n + 1 - i]],
         count |-> n + 27]

\* The statistics tables: any (user, entity) may have its statistics computed,
\* for every time range.
StatsTables ==
    {[k \in {<<c[1], c[2], r>> : c \in computed, r \in StatisticsRangeMembers} |->
         <<StatsRow(k[1], k[2], k[3])>>] :
     computed \in SUBSET ({UserId(u) : u \in UserNames} \X StatsEntities)}

\* download_user_stats(entity, user_name, time_range)
DownloadUserStats(entity, user_name, time_range) ==
    LET r == download_user_stats(users, stats, entity, user_name, time_range)
    IN  /\ ret' = [op |-> "download_user_stats",
                   entity |-> entity,
                   user_name |-> user_name,
                   time_range |-> time_range,
                   raised |-> r.raised,
                   value |-> r.value]
        /\ db_calls' = r.calls
        /\ UNCHANGED <<self, covers, users, stats>>

\* create_artist_stats_cover(user_name, time_range)
CreateArtistStatsCover(user_name, time_range) ==
    LET r == create_artist_stats_cover(users, stats, user_name, time_range)
    IN  /\ ret' = [op |-> "create_artist_stats_cover",
                   user_name |-> user_name,
                   time_range |-> time_range,
                   raised |-> r.raised,
                   value |-> r.value]
        /\ db_calls' = r.calls
        /\ UNCHANGED <<self, covers, users, stats>>

\* After construction, with the stores as the call will find them.
InitStats ==
    /\ self = CoverArtGenerator(MIN_DIMENSION, MIN_IMAGE_SIZE, TRUE, TRUE)
    /\ covers = <<>>
    /\ ret = NoCall
    /\ users \in UserTables
    /\ stats \in StatsTables
    /\ db_calls = <<>>

NextStats ==
    /\ ret = NoCall
    /\ \/ \E entity \in EntityArgs, user_name \in UserNames, time_range \in TimeRangeArgs :
             DownloadUserStats(entity, user_name, time_range)
       \/ \E user_name \in UserNames, time_range \in TimeRangeArgs :
             CreateArtistStatsCover(user_name, time_range)

SpecStats == InitStats /\ [][NextStats]_vars

\* --------------------------------------------- properties of the statistics

UserLookup(user_name) == <<"db_user.get_by_mb_id", user_name>>

\* C8: a time range or an entity outside the enumerations raises ValueError
\* with no store call made; the statistics are asked for only after the user
\* lookup, and only for a user it found; an unknown user raises "not found"
\* after the lookup alone; "not found/calculated" is raised only for a known
\* user.
C8_ValidatesBeforeStores ==
    ret.op = "download_user_stats" =>
        /\ (ret.time_range \notin StatisticsRangeMembers \/ ret.entity \notin StatsEntities) =>
              /\ ret.raised.exc = "ValueError"
              /\ ret.raised.msg \in
                    {<<"Invalid date range given.">>,
                     <<"Stats entity must be one of artist, release or recording.">>}
              /\ db_calls = <<>>
        /\ \A i \in 1..Len(db_calls) :
              db_calls[i][1] = "db_stats.get" =>
                  /\ i = 2
                  /\ db_calls[1] = UserLookup(ret.user_name)
                  /\ ret.user_name \in DOMAIN users
                  /\ db_calls[i] = <<"db_stats.get", users[ret.user_name][1].id,
                                     ret.entity, ret.time_range>>
        /\ (/\ ret.time_range \in StatisticsRangeMembers
            /\ ret.entity \in StatsEntities
            /\ ret.user_name \notin DOMAIN users) =>
              /\ ret.raised = ValueError(<<"User ", ret.user_name, " not found">>)
              /\ db_calls = <<UserLookup(ret.user_name)>>
        /\ ret.raised = ValueError(<<"Stats for user ", ret.user_name,
                                     " not found/calculated">>) =>
              /\ ret.user_name \in DOMAIN users
              /\ Len(db_calls) = 2

\* An invalid time range for a known user whose statistics are computed.
C8_Witness ==
    /\ ret.op = "download_user_stats"
    /\ ret.time_range = "fortnight"
    /\ ret.entity = "artists"
    /\ ret.user_name \in DOMAIN users
    /\ <<UserId(ret.user_name), "artists", "week">> \in DOMAIN stats
    /\ ret.raised = ValueError(<<"Invalid date range given.">>)
    /\ db_calls = <<>>

\* C9: for every user name and time range the artist cover returns the records
\* and the count download_user_stats gives for "artists" from the stores, and
\* raises what it raises.
C9_ArtistCoverFromStores ==
    ret.op = "create_artist_stats_cover" =>
        LET got == download_user_stats(users, stats, "artists", ret.user_name,
                                       ret.time_range)
        IN  IF got.raised # NoError THEN ret.raised = got.raised
            ELSE /\ ret.raised = NoError
                 /\ Len(ret.value[1]) <= NUMBER_OF_STATS
                 /\ ret.value[1] = got.value[1]
                 /\ ret.value[2].num_artists = got.value[2]

====
